---- MODULE Spec2Model ----
(***************************************************************************)
(* The agentic tool-calling loop of implement_feature.ts: implementFeature *)
(* with its audit log (log), its five tools (class Tools), the transcript  *)
(* sent to the completion service, and the three files it leaves behind.   *)
(*                                                                         *)
(* Node runs one callback to completion, so a step of the model is the     *)
(* code between two awaits that wait on the outside world: the completion  *)
(* request (client.messages.create) and a tool's primitive.                *)
(* The writes of the audit artifacts themselves (appendFileSync in log,    *)
(* the writeFileSync of the snapshot and of the summary) are taken to      *)
(* succeed; the files the tools touch may fail in any way.                 *)
(*                                                                         *)
(* Spec and FairSpec are the loop, in which a tool is known by its outcome *)
(* alone. ToolSpec is read, write and edit by themselves, on a working     *)
(* directory of text files whose bytes and strings are modelled.           *)
(***************************************************************************)
EXTENDS Integers, Sequences, FiniteSets, TLC

\* ------------------------------------------------------------------ bounds
\* Longest content (number of blocks) of one response of the service.
MaxBlocks == 2
\* Departures from the plain exchange that one run may hold (see Variation).
MaxVariation == 1
\* The iterations, counted from the first, in which a departure may happen.
VariedIterations == 2
\* Completion requests one run may issue; above MAX_ITERATIONS, so that only
\* a loop that passes its ceiling meets it.
MaxRequests == 21
\* Longest text (in code units) of a file's content and of a tool's string
\* argument.
MaxLen == 2

\* --------------------------------------------------------------- constants
MAX_ITERATIONS == 20

KnownTools == {"read", "write", "edit", "bash", "glob"}
\* A tool name the dispatch switch has no case for.
UnknownTool == "search"
ToolNames == KnownTools \cup {UnknownTool}
StopReasons == {"end_turn", "tool_use", "max_tokens"}
\* The feature description of the environment: unset/empty, or given.
FeatureRequests == {"", "add a stopwatch"}
\* A file of the working directory: <<>> when absent, <<content>> otherwise.
NoFile == <<>>
File(content) == <<content>>
\* CLAUDE.md in the working directory: absent, or with this content.
ClaudeMdFiles == {NoFile, File("use tabs")}
\* The tool call and the tool outcome of the plain exchange.
PlainTool == "write"

VARIABLES
  pc,             \* where implementFeature stands
  FEATURE_REQUEST,\* process.env.FEATURE_REQUEST || ''
  claudeMdFile,   \* the file CLAUDE.md of the working directory
  logs,           \* const logs: LogEntry[]
  logFileLines,   \* lines appended to claude-execution.log
  claudeMd,       \* let claudeMd
  messages,       \* const messages: the transcript
  continueLoop,   \* let continueLoop
  iterationCount, \* let iterationCount
  sent,           \* the transcript carried by the last completion request
  requests,       \* completion requests issued so far
  nextId,         \* the service's supply of tool_use ids
  response,       \* the response being processed
  blockIdx,       \* index of the block whose tool is executing
  hasToolUse,     \* let hasToolUse
  toolResults,    \* const toolResults
  snapshot,       \* claude-execution.log.json
  snapshotWrites, \* times claude-execution.log.json was written
  errorSummary,   \* claude-error-summary.txt
  returnCode,     \* the value implementFeature resolved to
  exitCode,       \* the status the process exited with
  variation       \* departures from the plain exchange so far

\* The working directory the tools act on and one invocation of a tool, for
\* the specification of the tools by themselves (ToolSpec).
VARIABLES
  files,          \* the bytes of each file of the working directory
  filesBefore,    \* files as the invocation found them
  toolCall,       \* the invocation: the tool's name and its arguments
  toolReturn,     \* the text the tool returned
  toolPhase,      \* "idle", "returned", "readback"
  fileWrites,     \* calls of fs.writeFileSync that went through
  readBack        \* the text a read of the same path returned afterwards

toolVars == <<files, filesBefore, toolCall, toolReturn, toolPhase,
              fileWrites, readBack>>

\* The variables of implementFeature that the tools do not touch.
loopVars == <<pc, FEATURE_REQUEST, claudeMdFile, claudeMd, messages,
              continueLoop, iterationCount, sent, requests, nextId,
              response, blockIdx, hasToolUse, toolResults, snapshot,
              snapshotWrites, errorSummary, returnCode, exitCode, variation>>

vars == <<loopVars, logs, logFileLines, toolVars>>

NoResponse == [content |-> <<>>, stop_reason |-> "none"]
NoCode == -1

\* ------------------------------------------------------------------ log()
\* interface LogEntry (the timestamp is left out: nothing reads it).
LogEntry(type, content, detail) ==
  [type |-> type, content |-> <<content, detail>>]

\* log(type, content): push to logs, append one line to claude-execution.log.
\* The pair <<logs, logFileLines>> is threaded through a handler.
log(lg, type, content, detail) ==
  [logs |-> Append(lg.logs, LogEntry(type, content, detail)),
   lines |-> lg.lines + 1]

\* ------------------------------------------------------------------ Tools
\* What a tool's primitive can do: "ok", "fail" (it threw), and for edit
\* "nomatch" (the file was read and does not include old_text).
Outcomes(name) ==
  IF name = "edit" THEN {"ok", "nomatch", "fail"} ELSE {"ok", "fail"}

\* ToolsBefore of tools that log only when they are through.
ToolsBeforeSilent(lg, name) == lg

\* The entry each Tools method logs on entering its try block.
ToolsBefore(lg, name) ==
  log(lg, "tool",
      CASE name = "read" -> "Reading file"
        [] name = "write" -> "Writing file"
        [] name = "edit" -> "Editing file"
        [] name = "bash" -> "Executing bash"
        [] name = "glob" -> "Glob pattern",
      name)

\* The entry each Tools method logs once its primitive is through.
ToolsAfter(lg, name, outcome) ==
  IF outcome = "ok"
  THEN log(lg, "tool",
           CASE name = "read" -> "Successfully read"
             [] name = "write" -> "Successfully wrote"
             [] name = "edit" -> "Successfully edited"
             [] name = "bash" -> "Bash completed"
             [] name = "glob" -> "Found files",
           name)
  ELSE IF outcome = "nomatch"
  THEN log(lg, "error", "Old text not found", name)
  ELSE log(lg, "error",
           CASE name = "read" -> "Failed to read"
             [] name = "write" -> "Failed to write"
             [] name = "edit" -> "Failed to edit"
             [] name = "bash" -> "Bash command failed"
             [] name = "glob" -> "Glob failed",
           name)

\* The text a Tools method returns: the output, or "Error: ...".
ToolsResult(name, outcome) ==
  IF outcome = "ok" THEN <<"output", name>> ELSE <<"Error", name>>

\* ------------------------------------------------------ strings and files
\* A JavaScript string is a sequence of UTF-16 code units. The code units of
\* the model: three ASCII characters, a high surrogate (it is never followed
\* by a low one here), and U+FFFD.
Chars == {"a", "$", "&"}
LoneSurrogate == "U+D83D"
ReplacementChar == "U+FFFD"
Strings(alphabet) == UNION {[1..n -> alphabet] : n \in 0..MaxLen}
\* The strings a tool_use block can carry as old_text and new_text, and as
\* the content of a write.
Texts == Strings(Chars)
Contents == Strings(Chars \cup {LoneSurrogate})

\* The bytes of one code unit in UTF-8, as Node encodes a string: a
\* surrogate without its pair is written as U+FFFD.
Utf8Bytes(c) ==
  CASE c = "a" -> <<97>>
    [] c = "$" -> <<36>>
    [] c = "&" -> <<38>>
    [] OTHER -> <<239, 191, 189>>

\* The encoding of fs.writeFileSync(filePath, str, 'utf8').
RECURSIVE Utf8Encode(_)
Utf8Encode(str) ==
  IF str = <<>> THEN <<>>
  ELSE Utf8Bytes(Head(str)) \o Utf8Encode(Tail(str))

\* The decoding of fs.readFileSync(filePath, 'utf8'); a byte that starts no
\* character of the model decodes to U+FFFD.
RECURSIVE Utf8Decode(_)
Utf8Decode(bytes) ==
  IF bytes = <<>> THEN <<>>
  ELSE IF Len(bytes) >= 3 /\ SubSeq(bytes, 1, 3) = <<239, 191, 189>>
  THEN <<ReplacementChar>> \o Utf8Decode(SubSeq(bytes, 4, Len(bytes)))
  ELSE <<CASE Head(bytes) = 97 -> "a"
           [] Head(bytes) = 36 -> "$"
           [] Head(bytes) = 38 -> "&"
           [] OTHER -> ReplacementChar>>
       \o Utf8Decode(Tail(bytes))

\* The files of the working directory that the tools are called on.
Paths == {"a.txt", "b.txt"}
\* A text file: absent, or the bytes of a text.
TextFiles == {NoFile} \cup {File(Utf8Encode(t)) : t \in Texts}
\* The working directories an invocation may find: any text file at the
\* first path, nothing or a one-letter file at the second.
WorkingDirectories ==
  {[p \in Paths |-> IF p = "a.txt" THEN x ELSE y] :
     x \in TextFiles, y \in {NoFile, File(Utf8Encode(<<"a">>))}}

\* The positions (from 0) at which searchString occurs in str.
Occurrences(str, searchString) ==
  {i \in 0..(Len(str) - Len(searchString)) :
     SubSeq(str, i + 1, i + Len(searchString)) = searchString}

\* Includes of an edit that never looks.
IncludesAlways(str, searchString) == TRUE

\* String.prototype.includes
Includes(str, searchString) == Occurrences(str, searchString) # {}

\* GetSubstitution of String.prototype.replace with a string pattern, from
\* code unit i of the replacement on: $$ stands for $, $& for the matched
\* text, $` and $' for the text before and after it; any other $ is kept
\* (a string pattern has no capture a $n could name).
RECURSIVE GetSubstitution(_, _, _, _, _)
GetSubstitution(matched, before, after, replacement, i) ==
  IF i > Len(replacement) THEN <<>>
  ELSE IF replacement[i] = "$" /\ i < Len(replacement)
          /\ replacement[i + 1] \in {"$", "&", "`", "'"}
  THEN (CASE replacement[i + 1] = "$" -> <<"$">>
          [] replacement[i + 1] = "&" -> matched
          [] replacement[i + 1] = "`" -> before
          [] replacement[i + 1] = "'" -> after)
       \o GetSubstitution(matched, before, after, replacement, i + 2)
  ELSE <<replacement[i]>>
       \o GetSubstitution(matched, before, after, replacement, i + 1)

\* String.prototype.replace(searchValue: string, replaceValue: string): the
\* first occurrence alone is replaced, by the substitution.
Replace(str, searchValue, replaceValue) ==
  IF Occurrences(str, searchValue) = {} THEN str
  ELSE LET pos == CHOOSE i \in Occurrences(str, searchValue) :
                    \A j \in Occurrences(str, searchValue) : i <= j
           before == SubSeq(str, 1, pos)
           after == SubSeq(str, pos + Len(searchValue) + 1, Len(str))
       IN  before
           \o GetSubstitution(searchValue, before, after, replaceValue, 1)
           \o after

\* WriteFile of a tool that opens the file for appending.
WriteFileAppend(file, bytes) ==
  File((IF file = NoFile THEN <<>> ELSE file[1]) \o bytes)

\* What fs.writeFileSync leaves of a file: the bytes written, whatever the
\* file held and whether or not it was there.
WriteFile(file, bytes) == File(bytes)

\* What the primitives of a tool can meet besides the state of the file: no
\* fault, a read that throws, a write (or the mkdir before it) that throws.
Faults == {"none", "read", "write"}

\* Tools.read on the working directory fs: [outcome, text, files, writes].
read(fs, filePath, fault) ==
  IF fs[filePath] = NoFile \/ fault = "read"
  THEN [outcome |-> "fail", text |-> <<"Error:", "Failed to read", filePath>>,
        files |-> fs, writes |-> 0]
  ELSE [outcome |-> "ok", text |-> Utf8Decode(fs[filePath][1]),
        files |-> fs, writes |-> 0]

\* Tools.write
write(fs, filePath, content, fault) ==
  IF fault = "write"
  THEN [outcome |-> "fail", text |-> <<"Error:", "Failed to write", filePath>>,
        files |-> fs, writes |-> 0]
  ELSE [outcome |-> "ok", text |-> <<"Successfully wrote", filePath>>,
        files |-> [fs EXCEPT ![filePath] =
                     WriteFile(fs[filePath], Utf8Encode(content))],
        writes |-> 1]

\* Tools.edit
edit(fs, filePath, oldText, newText, fault) ==
  IF fs[filePath] = NoFile \/ fault = "read"
  THEN [outcome |-> "fail", text |-> <<"Error:", "Failed to edit", filePath>>,
        files |-> fs, writes |-> 0]
  ELSE LET content == Utf8Decode(fs[filePath][1]) IN
       IF ~Includes(content, oldText)
       THEN [outcome |-> "nomatch",
             text |-> <<"Error:", "Old text not found in", filePath>>,
             files |-> fs, writes |-> 0]
       ELSE IF fault = "write"
       THEN [outcome |-> "fail",
             text |-> <<"Error:", "Failed to edit", filePath>>,
             files |-> fs, writes |-> 0]
       ELSE [outcome |-> "ok", text |-> <<"Successfully edited", filePath>>,
             files |-> [fs EXCEPT ![filePath] =
                          WriteFile(fs[filePath],
                             Utf8Encode(Replace(content, oldText,
                                                newText)))],
             writes |-> 1]

\* An invocation as the dispatch switch makes it from block.input.
Call(name, filePath, content, oldText, newText) ==
  [name |-> name, path |-> filePath, content |-> content,
   old_text |-> oldText, new_text |-> newText]
NoCall == Call("none", "", <<>>, <<>>, <<>>)

\* ------------------------------------------------------- content blocks
\* A text block of a response (its text is not modelled).
TextBlock == [type |-> "text", id |-> 0, name |-> ""]
\* A tool_use block: the service's correlation id and the tool it names.
ToolUse(id, name) == [type |-> "tool_use", id |-> id, name |-> name]
\* toolResults.push({type: 'tool_result', tool_use_id: block.id, content}).
ToolResult(id, result) ==
  [type |-> "tool_result", tool_use_id |-> id, content |-> result]

\* The shapes a response content can take: up to MaxBlocks blocks, each a
\* text block or a call of a named tool.
Shapes == UNION {[1..n -> {"text"} \cup ToolNames] : n \in 0..MaxBlocks}

\* The content of shape s; the service numbers its tool_use blocks with
\* fresh ids, first + 0, first + 1, ...
ContentOf(s, first) ==
  [i \in 1..Len(s) |->
     IF s[i] = "text" THEN TextBlock
     ELSE ToolUse(first + Cardinality({j \in 1..(i - 1) : s[j] # "text"}),
                  s[i])]

ToolUseCount(content) ==
  Cardinality({i \in 1..Len(content) : content[i].type = "tool_use"})

\* How far a response is from the plain exchange, in which the service
\* either calls PlainTool once with stop_reason tool_use or sends one text
\* block with stop_reason end_turn: one for every block beyond the first
\* (or for an empty content), one for every call of another tool, one for a
\* stop_reason that does not say what the content says.
Variation(r) ==
  (IF Len(r.content) = 0 THEN 1 ELSE Len(r.content) - 1)
  + Cardinality({i \in 1..Len(r.content) :
                   r.content[i].type = "tool_use"
                   /\ r.content[i].name # PlainTool})
  + (IF r.stop_reason = (IF ToolUseCount(r.content) > 0
                         THEN "tool_use" ELSE "end_turn")
     THEN 0 ELSE 1)

\* The departures the run may still hold: the budget that is left, and none
\* once the first iterations are over.
Allowance ==
  IF iterationCount <= VariedIterations /\ variation < MaxVariation
  THEN MaxVariation - variation ELSE 0

\* A step that costs `cost` departures is within the allowance.
MayVary(cost) == cost <= Allowance

\* The shapes of the two plain responses, and the shapes to choose from
\* (with no allowance only a plain shape can pass MayVary).
PlainShapes == {<<"text">>, <<PlainTool>>}
ShapesToTry == IF Allowance = 0 THEN PlainShapes ELSE Shapes

\* ------------------------------------------------------------- the loop
\* LoopGuard with <= for <.
LoopGuardOffByOne == continueLoop /\ iterationCount <= MAX_ITERATIONS

\* LoopGuard without the ceiling.
LoopGuardNoCeiling == continueLoop

\* while (continueLoop && iterationCount < MAX_ITERATIONS)
LoopGuard == continueLoop /\ iterationCount < MAX_ITERATIONS

\* PushResult that puts the result at the front of the batch.
PushResultFirst(results, block, result) ==
  <<ToolResult(block.id, result)>> \o results

\* toolResults.push({ type: 'tool_result', tool_use_id: block.id,
\*                    content: result })
PushResult(results, block, result) ==
  Append(results, ToolResult(block.id, result))

\* UnknownToolResult with a default case that skips the push.
UnknownToolSkipped(results, block) == results

\* The default case of the switch and the push that follows it:
\* result = `Unknown tool: ${block.name}`, with no log entry.
UnknownToolResult(results, block) ==
  Append(results, ToolResult(block.id, <<"Unknown tool", block.name>>))

\* The for loop over response.content from block i on, up to the next await
\* of a tool's primitive (idx = that block) or the end (idx = Len + 1).
\* st = [lg, results, has, idx]: the log, toolResults, hasToolUse.
RECURSIVE Dispatch(_, _, _)
Dispatch(content, i, st) ==
  IF i > Len(content) THEN [st EXCEPT !.idx = i]
  ELSE IF content[i].type = "text"
  THEN Dispatch(content, i + 1,
                [st EXCEPT !.lg = log(st.lg, "message", "Claude", "text")])
  ELSE LET called == log(st.lg, "tool", "Tool call", content[i].name)
       IN  IF content[i].name \in KnownTools
           THEN [lg |-> ToolsBefore(called, content[i].name),
                 results |-> st.results, has |-> TRUE, idx |-> i]
           ELSE Dispatch(content, i + 1,
                         [lg |-> called,
                          results |-> UnknownToolResult(st.results,
                                                        content[i]),
                          has |-> TRUE, idx |-> i])

\* EndsConversation that looks at stop_reason alone.
EndsConversationOnStopOnly(r, has) == r.stop_reason = "end_turn"

\* if (response.stop_reason === 'end_turn' || !hasToolUse)
EndsConversation(r, has) == r.stop_reason = "end_turn" \/ ~has

\* Pushed with the two pushes in the other order.
PushedResultsFirst(r, results) ==
  (IF Len(results) > 0
   THEN <<[role |-> "user", content |-> results]>> ELSE <<>>)
  \o <<[role |-> "assistant", content |-> r.content]>>

\* Pushed with the test of toolResults.length off by one.
PushedWhenSeveral(r, results) ==
  <<[role |-> "assistant", content |-> r.content]>>
  \o (IF Len(results) > 1
      THEN <<[role |-> "user", content |-> results]>> ELSE <<>>)

\* The turns pushed to messages when the conversation goes on.
Pushed(r, results) ==
  <<[role |-> "assistant", content |-> r.content]>>
  \o (IF Len(results) > 0
      THEN <<[role |-> "user", content |-> results]>> ELSE <<>>)

\* The state after Dispatch returned st for response r: either a tool's
\* primitive is awaited, or the response is through and the loop is back at
\* its condition.
Dispatched(r, st) ==
  /\ hasToolUse' = st.has
  /\ toolResults' = st.results
  /\ response' = r
  /\ IF st.idx <= Len(r.content)
     THEN /\ pc' = "tool"
          /\ blockIdx' = st.idx
          /\ logs' = st.lg.logs
          /\ logFileLines' = st.lg.lines
          /\ UNCHANGED <<continueLoop, messages>>
     ELSE /\ pc' = "loop"
          /\ blockIdx' = 0
          /\ IF EndsConversation(r, st.has)
             THEN LET ended == log(st.lg, "system", "Conversation ended", "")
                  IN  /\ continueLoop' = FALSE
                      /\ logs' = ended.logs
                      /\ logFileLines' = ended.lines
                      /\ UNCHANGED messages
             ELSE /\ messages' = messages \o Pushed(r, st.results)
                  /\ logs' = st.lg.logs
                  /\ logFileLines' = st.lg.lines
                  /\ UNCHANGED continueLoop

\* ---------------------------------------------------------------- actions
\* No tool has been called by itself: the state of the tool variables in
\* a run of implementFeature, whose tools are followed by their outcomes.
ToolsIdle ==
  /\ files = [p \in Paths |-> NoFile]
  /\ filesBefore = files
  /\ toolCall = NoCall
  /\ toolReturn = <<>>
  /\ toolPhase = "idle"
  /\ fileWrites = 0
  /\ readBack = <<>>

Init ==
  /\ ToolsIdle
  /\ pc = "start"
  /\ FEATURE_REQUEST \in FeatureRequests
  /\ claudeMdFile \in ClaudeMdFiles
  /\ logs = <<>>
  /\ logFileLines = 0
  /\ claudeMd = ""
  /\ messages = <<>>
  /\ continueLoop = FALSE
  /\ iterationCount = 0
  /\ sent = <<>>
  /\ requests = 0
  /\ nextId = 1
  /\ response = NoResponse
  /\ blockIdx = 0
  /\ hasToolUse = FALSE
  /\ toolResults = <<>>
  /\ snapshot = NoFile
  /\ snapshotWrites = 0
  /\ errorSummary = NoFile
  /\ returnCode = NoCode
  /\ exitCode = NoCode
  /\ variation = 0

\* The first user turn (its text is the feature request in a fixed frame).
UserPrompt == <<[type |-> "text", id |-> 0, name |-> FEATURE_REQUEST]>>

\* tools.read('CLAUDE.md') at startup, on the log lg: [lg, result].
ReadClaudeMd(lg) ==
  LET before == ToolsBefore(lg, "read")
      outcome == IF claudeMdFile = NoFile THEN "fail" ELSE "ok"
  IN  [lg |-> ToolsAfter(before, "read", outcome),
       result |-> IF outcome = "ok" THEN claudeMdFile[1]
                  ELSE "Error: Failed to read CLAUDE.md"]

\* const systemPrompt: the tool capabilities, the project instructions when
\* claudeMd is truthy (a non-empty string), the guidelines. claudeMd is not
\* assigned after startup, so this is what every request carries as system.
SystemPrompt(md) ==
  <<"You are an expert software engineer">>
  \o (IF md # "" THEN <<"## Project Instructions (CLAUDE.md)", md>>
      ELSE <<>>)
  \o <<"## Important Guidelines">>
systemPrompt == SystemPrompt(claudeMd)

\* MissingFeatureRequest of a startup that never looks.
MissingNeverChecked == FALSE

\* if (!FEATURE_REQUEST)
MissingFeatureRequest == FEATURE_REQUEST = ""

\* implementFeature up to the loop: the check of FEATURE_REQUEST, the read
\* of CLAUDE.md, the prompts and the first turn.
Start ==
  /\ UNCHANGED toolVars
  /\ pc = "start"
  /\ LET l0 == log([logs |-> logs, lines |-> logFileLines],
                   "system", "Starting feature implementation", "")
     IN  IF MissingFeatureRequest
         THEN LET l1 == log(l0, "error", "No FEATURE_REQUEST provided", "")
              IN  /\ logs' = l1.logs
                  /\ logFileLines' = l1.lines
                  /\ exitCode' = 1
                  /\ pc' = "exited"
                  /\ UNCHANGED <<claudeMd, messages, continueLoop>>
         ELSE LET l1 == log(l0, "system", "Feature request", FEATURE_REQUEST)
                  rd == ReadClaudeMd(l1)
                  l2 == log(rd.lg, "system", "Found and read CLAUDE.md", "")
              IN  /\ logs' = l2.logs
                  /\ logFileLines' = l2.lines
                  /\ claudeMd' = rd.result
                  /\ messages' = <<[role |-> "user", content |-> UserPrompt]>>
                  /\ continueLoop' = TRUE
                  /\ pc' = "loop"
                  /\ UNCHANGED exitCode
  /\ UNCHANGED <<FEATURE_REQUEST, claudeMdFile, iterationCount, sent,
                 requests, nextId, response, blockIdx, hasToolUse,
                 toolResults, snapshot, snapshotWrites, errorSummary,
                 returnCode, variation>>

\* One pass of the loop head: iterationCount++, the log entry, and the
\* completion request carrying the transcript.
IssueRequest ==
  /\ UNCHANGED toolVars
  /\ pc = "loop"
  /\ LoopGuard
  /\ requests < MaxRequests
  /\ iterationCount' = iterationCount + 1
  /\ LET l == log([logs |-> logs, lines |-> logFileLines],
                  "system", "Iteration", ToString(iterationCount + 1))
     IN  logs' = l.logs /\ logFileLines' = l.lines
  /\ sent' = messages
  /\ requests' = requests + 1
  /\ pc' = "request"
  /\ UNCHANGED <<FEATURE_REQUEST, claudeMdFile, claudeMd, messages,
                 continueLoop, nextId, response, blockIdx, hasToolUse,
                 toolResults, snapshot, snapshotWrites, errorSummary,
                 returnCode, exitCode, variation>>

\* The completion request resolves with response r: the response is logged
\* and its blocks are processed up to the first tool that is awaited.
ReceiveResponse ==
  /\ UNCHANGED toolVars
  /\ pc = "request"
  /\ \E s \in ShapesToTry, stop \in StopReasons :
       LET r == [content |-> ContentOf(s, nextId), stop_reason |-> stop]
           l == log([logs |-> logs, lines |-> logFileLines],
                    "message", "Claude response", stop)
       IN  /\ MayVary(Variation(r))
           /\ variation' = variation + Variation(r)
           /\ nextId' = nextId + ToolUseCount(r.content)
           /\ Dispatched(r, Dispatch(r.content, 1,
                  [lg |-> l, results |-> <<>>, has |-> FALSE, idx |-> 0]))
  /\ UNCHANGED <<FEATURE_REQUEST, claudeMdFile, claudeMd, iterationCount,
                 sent, requests, snapshot, snapshotWrites, errorSummary,
                 returnCode, exitCode>>

\* The awaited tool's primitive is through with some outcome: the tool logs
\* it and returns its text, the result is pushed, and the for loop goes on.
ToolReturns ==
  /\ UNCHANGED toolVars
  /\ pc = "tool"
  /\ LET b == response.content[blockIdx] IN
     \E outcome \in Outcomes(b.name) :
       LET cost == IF outcome # "ok" /\ b.name = PlainTool THEN 1 ELSE 0
           l == ToolsAfter([logs |-> logs, lines |-> logFileLines],
                           b.name, outcome)
       IN  /\ MayVary(cost)
           /\ variation' = variation + cost
           /\ Dispatched(response, Dispatch(response.content, blockIdx + 1,
                  [lg |-> l,
                   results |-> PushResult(toolResults, b,
                                          ToolsResult(b.name, outcome)),
                   has |-> hasToolUse, idx |-> blockIdx]))
  /\ UNCHANGED <<FEATURE_REQUEST, claudeMdFile, claudeMd, iterationCount,
                 sent, requests, nextId, snapshot, snapshotWrites,
                 errorSummary, returnCode, exitCode>>

\* JSON.stringify({ logs, totalIterations: iterationCount })
SuccessSnapshot(lg) ==
  [logs |-> lg, totalIterations |-> iterationCount]

\* The loop is left: the closing entries, the snapshot, return 0.
LoopExit ==
  /\ UNCHANGED toolVars
  /\ pc = "loop"
  /\ ~LoopGuard
  /\ LET l0 == [logs |-> logs, lines |-> logFileLines]
         l1 == IF iterationCount >= MAX_ITERATIONS
               THEN log(l0, "system", "Reached maximum iterations", "")
               ELSE l0
         l2 == log(l1, "system", "Feature implementation completed", "")
     IN  /\ logs' = l2.logs
         /\ logFileLines' = l2.lines
         /\ snapshot' = File(SuccessSnapshot(l2.logs))
  /\ snapshotWrites' = snapshotWrites + 1
  /\ returnCode' = 0
  /\ pc' = "returned"
  /\ UNCHANGED <<FEATURE_REQUEST, claudeMdFile, claudeMd, messages,
                 continueLoop, iterationCount, sent, requests, nextId,
                 response, blockIdx, hasToolUse, toolResults, errorSummary,
                 exitCode, variation>>

\* ErrorSummary without the filter.
ErrorSummaryUnfiltered(lg) == [i \in 1..Len(lg) |-> lg[i].content]

\* logs.filter(l => l.type === 'error').map(l => l.content), one per line.
ErrorSummary(lg) ==
  LET errs == SelectSeq(lg, LAMBDA e : e.type = "error")
  IN  [i \in 1..Len(errs) |-> errs[i].content]

\* JSON.stringify({ logs, error: error.message })
FailureSnapshot(lg, message) ==
  [logs |-> lg, error |-> message]

\* The completion request rejects: the catch block logs the fatal error,
\* writes the summary and the snapshot, and returns 1.
RequestFails ==
  /\ UNCHANGED toolVars
  /\ pc = "request"
  /\ LET l == log([logs |-> logs, lines |-> logFileLines],
                  "error", "Fatal error", "request failed")
     IN  /\ logs' = l.logs
         /\ logFileLines' = l.lines
         /\ errorSummary' = File(ErrorSummary(l.logs))
         /\ snapshot' = File(FailureSnapshot(l.logs, "request failed"))
  /\ snapshotWrites' = snapshotWrites + 1
  /\ returnCode' = 1
  /\ pc' = "returned"
  /\ UNCHANGED <<FEATURE_REQUEST, claudeMdFile, claudeMd, messages,
                 continueLoop, iterationCount, sent, requests, nextId,
                 response, blockIdx, hasToolUse, toolResults, exitCode,
                 variation>>

\* ExitStatus of a then callback that drops the code.
ExitStatusDropped(code) == 0

\* process.exit(code) of the then callback.
ExitStatus(code) == code

\* implementFeature().then(code => process.exit(code))
Exit ==
  /\ UNCHANGED toolVars
  /\ pc = "returned"
  /\ exitCode' = ExitStatus(returnCode)
  /\ pc' = "exited"
  /\ UNCHANGED <<FEATURE_REQUEST, claudeMdFile, logs, logFileLines, claudeMd,
                 messages, continueLoop, iterationCount, sent, requests,
                 nextId, response, blockIdx, hasToolUse, toolResults,
                 snapshot, snapshotWrites, errorSummary, returnCode,
                 variation>>

Next ==
  \/ Start
  \/ IssueRequest
  \/ ReceiveResponse
  \/ ToolReturns
  \/ RequestFails
  \/ LoopExit
  \/ Exit

Spec == Init /\ [][Next]_vars

\* The claim of termination supposes that every completion request and every
\* tool invocation returns or throws; Node then runs the continuation, and
\* runs the then callback once implementFeature has resolved.
FairSpec == Spec /\ WF_vars(Next)

\* ------------------------------------------------ the tools by themselves
\* One invocation of read, write or edit on a working directory, as the
\* dispatch switch makes it, then a read of the same path. A Tools method
\* holds no await that waits on the outside world (its primitives are the
\* synchronous ones of fs), so an invocation is one step.
ToolInit ==
  /\ files \in WorkingDirectories
  /\ filesBefore = files
  /\ toolCall = NoCall
  /\ toolReturn = <<>>
  /\ toolPhase = "idle"
  /\ fileWrites = 0
  /\ readBack = <<>>
  /\ pc = "start"
  /\ FEATURE_REQUEST = "add a stopwatch"
  /\ claudeMdFile = NoFile
  /\ logs = <<>>
  /\ logFileLines = 0
  /\ claudeMd = ""
  /\ messages = <<>>
  /\ continueLoop = FALSE
  /\ iterationCount = 0
  /\ sent = <<>>
  /\ requests = 0
  /\ nextId = 1
  /\ response = NoResponse
  /\ blockIdx = 0
  /\ hasToolUse = FALSE
  /\ toolResults = <<>>
  /\ snapshot = NoFile
  /\ snapshotWrites = 0
  /\ errorSummary = NoFile
  /\ returnCode = NoCode
  /\ exitCode = NoCode
  /\ variation = 0

\* The invocation call ran to its return r, with the two entries it logs.
Returned(call, r) ==
  /\ toolPhase' = "returned"
  /\ toolCall' = call
  /\ toolReturn' = r.text
  /\ filesBefore' = files
  /\ files' = r.files
  /\ fileWrites' = fileWrites + r.writes
  /\ LET l == ToolsAfter(ToolsBefore([logs |-> logs, lines |-> logFileLines],
                                     call.name),
                         call.name, r.outcome)
     IN  logs' = l.logs /\ logFileLines' = l.lines
  /\ UNCHANGED <<readBack, loopVars>>

\* case 'read': result = await tools.read(block.input.path)
ToolsRead ==
  /\ toolPhase = "idle"
  /\ \E p \in Paths, fault \in {"none", "read"} :
       Returned(Call("read", p, <<>>, <<>>, <<>>), read(files, p, fault))

\* case 'write': result = await tools.write(path, content)
ToolsWrite ==
  /\ toolPhase = "idle"
  /\ \E p \in Paths, c \in Contents, fault \in {"none", "write"} :
       Returned(Call("write", p, c, <<>>, <<>>), write(files, p, c, fault))

\* case 'edit': result = await tools.edit(path, old_text, new_text)
ToolsEdit ==
  /\ toolPhase = "idle"
  /\ \E p \in Paths, o \in Texts, n \in Texts, fault \in Faults :
       Returned(Call("edit", p, <<>>, o, n), edit(files, p, o, n, fault))

\* A later tools.read of the path of the invocation, nothing having touched
\* the file in between.
ReadAfter ==
  /\ toolPhase = "returned"
  /\ toolPhase' = "readback"
  /\ \E fault \in {"none", "read"} :
       LET r == read(files, toolCall.path, fault)
           l == ToolsAfter(ToolsBefore([logs |-> logs,
                                        lines |-> logFileLines], "read"),
                           "read", r.outcome)
       IN  /\ readBack' = <<r.text>>
           /\ logs' = l.logs /\ logFileLines' = l.lines
  /\ UNCHANGED <<files, filesBefore, toolCall, toolReturn, fileWrites,
                 loopVars>>

ToolNext ==
  \/ ToolsRead
  \/ ToolsWrite
  \/ ToolsEdit
  \/ ReadAfter

ToolSpec == ToolInit /\ [][ToolNext]_vars

\* ================================================================ claims
\* Helpers of the claims' formulas.
IsAssistant(turn) == turn.role = "assistant"
IsResultTurn(turn) ==
  turn.role = "user" /\ Len(turn.content) > 0
  /\ turn.content[1].type = "tool_result"
\* The ids of the tool_use blocks of a content, in order.
CallIds(content) ==
  LET calls == SelectSeq(content, LAMBDA b : b.type = "tool_use")
  IN  [i \in 1..Len(calls) |-> calls[i].id]
\* The tool_use_ids of the tool_result blocks of a content, in order.
ResultIds(content) ==
  LET res == SelectSeq(content, LAMBDA b : b.type = "tool_result")
  IN  [i \in 1..Len(res) |-> res[i].tool_use_id]
\* The blocks of a turn that are a tool_result for call id.
ResultsIn(turn, id) ==
  {j \in 1..Len(turn.content) :
     /\ turn.content[j].type = "tool_result"
     /\ turn.content[j].tool_use_id = id}
\* The turns of transcript t that hold a tool_result for call id.
TurnsAnswering(t, id) == {k \in 1..Len(t) : ResultsIn(t[k], id) # {}}
Logged(content) == \E i \in 1..Len(logs) : logs[i].content[1] = content
HasErrorEntry == \E i \in 1..Len(logs) : logs[i].type = "error"

\* Every tool_use block of every assistant turn of transcript t has exactly
\* one tool_result, which is in the turn right after it, and every
\* tool_result answers a call of the turn right before it.
Answered(t) ==
  /\ \A i \in 1..Len(t) :
       IsAssistant(t[i]) =>
         \A j \in 1..Len(t[i].content) :
           t[i].content[j].type = "tool_use" =>
             /\ i < Len(t)
             /\ t[i + 1].role = "user"
             /\ TurnsAnswering(t, t[i].content[j].id) = {i + 1}
             /\ Cardinality(ResultsIn(t[i + 1], t[i].content[j].id)) = 1
  /\ \A i \in 1..Len(t) :
       IsResultTurn(t[i]) =>
         /\ i > 1
         /\ IsAssistant(t[i - 1])
         /\ ResultIds(t[i].content) = CallIds(t[i - 1].content)
         /\ Len(ResultIds(t[i].content)) = Len(t[i].content)

\* C1: whenever a completion request is outstanding, the transcript it
\* carries has no orphaned tool call and no unmatched tool result: each
\* tool_use block of an assistant turn is answered exactly once, in the user
\* turn right after it, under every sequence of responses and tool outcomes.
NoOrphanedCalls == pc = "request" => Answered(sent)

\* A request whose transcript holds the result of a failed or unknown tool.
NoOrphanedCallsWitness ==
  /\ pc = "request"
  /\ \E i \in 1..Len(sent) :
       /\ IsResultTurn(sent[i])
       /\ \E j \in 1..Len(sent[i].content) :
            sent[i].content[j].content[1] # "output"

\* C2: iterationCount stays within 0..MAX_ITERATIONS and never decreases,
\* the completion requests issued so far are iterationCount many, and the
\* totalIterations of a written snapshot is at most MAX_ITERATIONS.
IterationCeiling ==
  /\ [](/\ iterationCount \in 0..MAX_ITERATIONS
        /\ requests = iterationCount
        /\ \A i \in 1..Len(snapshot) :
             "totalIterations" \in DOMAIN snapshot[i]
               => snapshot[i].totalIterations \in 0..MAX_ITERATIONS)
  /\ [][iterationCount' >= iterationCount]_vars

\* A run that issued MAX_ITERATIONS requests and reported them.
IterationCeilingWitness ==
  /\ pc = "exited"
  /\ requests = MAX_ITERATIONS
  /\ snapshot # NoFile
  /\ "totalIterations" \in DOMAIN snapshot[1]
  /\ snapshot[1].totalIterations = MAX_ITERATIONS

\* C3: under FairSpec (every request and every tool returns or throws) every
\* run reaches process exit, also when every response asks for tools.
Terminates == <>(pc = "exited")

\* A run ended by the ceiling alone: the last response still asked to go on.
TerminatesWitness ==
  /\ pc = "exited"
  /\ iterationCount = MAX_ITERATIONS
  /\ continueLoop
  /\ exitCode = 0

\* The calls of the response in hand that were dispatched so far.
DispatchedCalls ==
  IF pc = "tool"
  THEN CallIds(SubSeq(response.content, 1, blockIdx - 1))
  ELSE CallIds(response.content)

\* C4: a failing or unknown tool never takes the fatal path: while a
\* response is dispatched and after it, every call dispatched so far has its
\* text result under its id, nothing was returned and no summary written,
\* the step after a tool's return stays in the loop, and a response that
\* did not end the conversation leaves the loop set to go on.
ToolFailureContained ==
  /\ [](pc \in {"tool", "loop"} /\ response # NoResponse =>
          /\ ResultIds(toolResults) = DispatchedCalls
          /\ \A j \in 1..Len(toolResults) :
               toolResults[j].content[1] \in {"output", "Error", "Unknown tool"}
          /\ returnCode = NoCode /\ exitCode = NoCode
          /\ errorSummary = NoFile
          /\ (pc = "loop" /\ ~EndsConversation(response, hasToolUse)
                => continueLoop /\ (iterationCount < MAX_ITERATIONS => LoopGuard)))
  /\ [][pc = "tool" => pc' \in {"tool", "loop"}]_vars

\* The request that follows a response one of whose tools failed, and the
\* request that follows a call of an unknown tool.
ToolFailureContainedWitness ==
  /\ pc = "request"
  /\ iterationCount = 2
  /\ \E j \in 1..Len(toolResults) :
       toolResults[j].content[1] \in {"Error", "Unknown tool"}

\* The ways a run can have gone, read off the audit log.
Fatal == Logged("Fatal error")
Missing == Logged("No FEATURE_REQUEST provided")
NaturalStop == Logged("Conversation ended")
LoopEnded == ~Fatal /\ ~Missing /\ (NaturalStop \/ iterationCount >= MAX_ITERATIONS)

\* C5: the process exits with 0 exactly when the loop ended by a natural
\* stop or at the ceiling, with 1 exactly when a fatal exception escaped or
\* the feature description was missing, and an exit with 1 has an
\* error-kind entry in the log.
ExitStatusTellsOutcome ==
  pc = "exited" =>
    /\ exitCode \in {0, 1}
    /\ (exitCode = 0 <=> LoopEnded)
    /\ (exitCode = 1 <=> Fatal \/ Missing)
    /\ (exitCode = 1 => HasErrorEntry)

\* An exit with 1 after a request failed in a later iteration.
ExitStatusTellsOutcomeWitness ==
  pc = "exited" /\ exitCode = 1 /\ Fatal /\ iterationCount > 1

\* C6: with FEATURE_REQUEST empty or unset the run never leaves startup: no
\* completion request is issued, no tool is dispatched or run, and the
\* process exits with status 1.
MissingInputStopsAtStartup ==
  FEATURE_REQUEST = "" =>
    /\ requests = 0
    /\ sent = <<>>
    /\ \A i \in 1..Len(logs) : logs[i].type # "tool"
    /\ pc \in {"start", "exited"}
    /\ (pc = "exited" => exitCode = 1)

\* The exit of a run without a feature description.
MissingInputStopsAtStartupWitness ==
  FEATURE_REQUEST = "" /\ pc = "exited" /\ Missing

\* C7: every run that reaches process exit has written
\* claude-execution.log.json exactly once, whatever the outcome.
SnapshotWrittenOnce ==
  pc = "exited" => snapshotWrites = 1 /\ snapshot # NoFile

\* C8: started without claude-error-summary.txt, a run leaves the summary
\* absent at process exit if and only if it exits with status 0.
SummaryAbsentIffSuccess ==
  pc = "exited" => ((errorSummary = NoFile) <=> (exitCode = 0))

\* The contents of the error-kind entries of a log, in order.
RECURSIVE ErrorContents(_)
ErrorContents(lg) ==
  IF lg = <<>> THEN <<>>
  ELSE (IF Head(lg).type = "error" THEN <<Head(lg).content>> ELSE <<>>)
       \o ErrorContents(Tail(lg))

\* C9: after a fatal exception the summary holds the contents of the
\* error-kind entries logged so far, in order and ending with the fatal
\* one, no line of it is the content of an entry of another kind, and the
\* snapshot holds as many entries as log() was called.
FatalArtifacts ==
  returnCode = 1 =>
    /\ errorSummary # NoFile /\ snapshot # NoFile
    /\ errorSummary[1] = ErrorContents(logs)
    /\ errorSummary[1][Len(errorSummary[1])][1] = "Fatal error"
    /\ \A k \in 1..Len(errorSummary[1]) :
         \A i \in 1..Len(logs) :
           logs[i].content = errorSummary[1][k] => logs[i].type = "error"
    /\ Len(snapshot[1].logs) = logFileLines
    /\ snapshot[1].logs = logs

\* A fatal failure whose summary has more than the fatal entry, in a log
\* that holds entries of the other three kinds.
FatalArtifactsWitness ==
  /\ pc = "exited" /\ returnCode = 1
  /\ Len(errorSummary[1]) >= 2
  /\ \A t \in {"system", "tool", "message"} :
       \E i \in 1..Len(logs) : logs[i].type = t

\* The kinds of the tool and error entries logged for the response in hand:
\* those after the last "Claude response" entry.
ResponseToolKinds ==
  LET marks == {i \in 1..Len(logs) : logs[i].content[1] = "Claude response"}
      from == CHOOSE i \in marks : \A j \in marks : j <= i
      tail == SubSeq(logs, from + 1, Len(logs))
      kept == SelectSeq(tail, LAMBDA e : e.type \in {"tool", "error"})
  IN  [i \in 1..Len(kept) |-> kept[i].type]

RECURSIVE CallKinds(_, _, _)
CallKinds(content, i, k) ==
  IF i > Len(content) THEN <<>>
  ELSE IF content[i].type = "text" THEN CallKinds(content, i + 1, k)
  ELSE IF pc = "tool" /\ i = blockIdx THEN <<"tool", "tool">>
  ELSE (IF content[i].name \in KnownTools
        THEN <<"tool", "tool",
               IF toolResults[k + 1].content[1] = "output"
               THEN "tool" ELSE "error">>
        ELSE <<"tool">>)
       \o CallKinds(content, i + 1, k + 1)

FailedIn(results) ==
  {j \in 1..Len(results) : results[j].content[1] = "Error"}
\* The failed tool invocations the model requested in the run so far: those
\* answered in the transcript, and those of the last response when its
\* batch was not pushed (the conversation ended with it).
FailedInvocations ==
  Cardinality(UNION {{<<k, j>> : j \in FailedIn(messages[k].content)} :
                       k \in {k \in 1..Len(messages) :
                                IsResultTurn(messages[k])}})
  + (IF continueLoop THEN 0 ELSE Cardinality(FailedIn(toolResults)))
ErrorEntries == {i \in 1..Len(logs) : logs[i].type = "error"}
\* The tools the tool_use blocks of a content name, in order.
CallNames(content) ==
  LET calls == SelectSeq(content, LAMBDA b : b.type = "tool_use")
  IN  [i \in 1..Len(calls) |-> calls[i].name]
\* The exchange of the scenario: one write that succeeds, one shell command
\* that fails, then a response of text only.
ThreeTurnExchange ==
  /\ Len(messages) = 5
  /\ CallNames(messages[2].content) = <<"write">>
  /\ messages[3].content[1].content[1] = "output"
  /\ CallNames(messages[4].content) = <<"bash">>
  /\ messages[5].content[1].content[1] = "Error"
  /\ response.content = <<TextBlock>>

\* C11: in a run that ends without a fatal failure (exit status 0) the
\* error-kind entries of the log are as many as the failed tool invocations
\* the model requested, whatever the working directory held; after the
\* three-turn exchange the run has made 3 iterations and its log holds
\* exactly one error-kind entry.
ErrorEntriesAreToolFailures ==
  (pc = "exited" /\ exitCode = 0) =>
    /\ Cardinality(ErrorEntries) = FailedInvocations
    /\ ThreeTurnExchange =>
         iterationCount = 3 /\ Cardinality(ErrorEntries) = 1

\* ------------------------------------------------------- the tools' claims
\* Helpers, written without the operators of the tools.
\* Text old is found in text str at position i (from 0).
OccursAt(str, old, i) ==
  /\ i + Len(old) <= Len(str)
  /\ \A k \in 1..Len(old) : str[i + k] = old[k]
Occurs(str, old) == \E i \in 0..Len(str) : OccursAt(str, old, i)
FirstOccurrence(str, old) ==
  CHOOSE i \in 0..Len(str) :
    OccursAt(str, old, i) /\ \A j \in 0..(i - 1) : ~OccursAt(str, old, j)
\* The text of a file that is there.
TextOf(file) == Utf8Decode(file[1])
IsError(text) == Len(text) > 0 /\ text[1] = "Error:"
EditReturned == toolPhase = "returned" /\ toolCall.name = "edit"
WriteSucceeded ==
  /\ toolPhase \in {"returned", "readback"}
  /\ toolCall.name = "write"
  /\ ~IsError(toolReturn)
ReadBackSucceeded == toolPhase = "readback" /\ ~IsError(readBack[1])
WellFormed(str) == \A i \in 1..Len(str) : str[i] # LoneSurrogate

\* C12: an edit of a file that is there, with an old_text that does not
\* occur in its content, returns a text starting with "Error:", makes no
\* write, and leaves every file of the working directory as it was.
EditWithoutOccurrence ==
  (/\ EditReturned
   /\ filesBefore[toolCall.path] # NoFile
   /\ ~Occurs(TextOf(filesBefore[toolCall.path]), toolCall.old_text)) =>
    /\ IsError(toolReturn)
    /\ fileWrites = 0
    /\ files = filesBefore

\* An edit of a non-empty file beside another file, with an old_text its
\* content lacks, has returned "Old text not found".
EditWithoutOccurrenceWitness ==
  /\ EditReturned
  /\ filesBefore[toolCall.path] # NoFile
  /\ Len(TextOf(filesBefore[toolCall.path])) = MaxLen
  /\ \A p \in Paths : filesBefore[p] # NoFile
  /\ ~Occurs(TextOf(filesBefore[toolCall.path]), toolCall.old_text)
  /\ toolReturn = <<"Error:", "Old text not found in", toolCall.path>>

\* C13: a successful edit leaves the file equal to the text before the
\* first occurrence of old_text, then new_text verbatim, then the text after
\* that occurrence, and leaves every other file as it was.
EditReplacesFirstVerbatim ==
  (EditReturned /\ ~IsError(toolReturn)) =>
    LET content == TextOf(filesBefore[toolCall.path])
        pos == FirstOccurrence(content, toolCall.old_text)
    IN  /\ Occurs(content, toolCall.old_text)
        /\ files[toolCall.path] # NoFile
        /\ TextOf(files[toolCall.path]) =
             SubSeq(content, 1, pos) \o toolCall.new_text
             \o SubSeq(content, pos + Len(toolCall.old_text) + 1,
                       Len(content))
        /\ \A p \in Paths \ {toolCall.path} : files[p] = filesBefore[p]

\* C14: after a successful write the file is there and holds exactly
\* content, whatever it held before, and a read of the path that succeeds
\* returns exactly content.
WriteReadRoundTrip ==
  WriteSucceeded =>
    /\ files[toolCall.path] # NoFile
    /\ TextOf(files[toolCall.path]) = toolCall.content
    /\ ReadBackSucceeded => readBack[1] = toolCall.content

\* C14 amended: after a successful write the file is there and holds the
\* UTF-8 bytes of content and nothing else, whatever it held before; when
\* content has no unpaired surrogate, a read of the path that succeeds
\* returns exactly content, and otherwise it returns content with U+FFFD
\* for every unpaired surrogate.
WriteReadRoundTripWellFormed ==
  WriteSucceeded =>
    /\ files[toolCall.path] = File(Utf8Encode(toolCall.content))
    /\ \A p \in Paths \ {toolCall.path} : files[p] = filesBefore[p]
    /\ ReadBackSucceeded =>
         /\ Len(readBack[1]) = Len(toolCall.content)
         /\ \A i \in 1..Len(readBack[1]) :
              readBack[1][i] = IF toolCall.content[i] = LoneSurrogate
                               THEN ReplacementChar
                               ELSE toolCall.content[i]
         /\ WellFormed(toolCall.content) => readBack[1] = toolCall.content

\* A file of the longest text was overwritten with a shorter, different,
\* well-formed content, and read back.
WriteReadRoundTripWellFormedWitness ==
  /\ WriteSucceeded
  /\ ReadBackSucceeded
  /\ filesBefore[toolCall.path] # NoFile
  /\ Len(TextOf(filesBefore[toolCall.path])) = MaxLen
  /\ Len(toolCall.content) = 1
  /\ WellFormed(toolCall.content)
  /\ readBack[1] = toolCall.content

\* ------------------------------------------------------ the loop's claims
\* The entries logged before the first iteration.
StartupEntries ==
  {i \in 1..Len(logs) :
     \A j \in 1..i : logs[j].content[1] # "Iteration"}
HasConventionsSection ==
  \E i \in 1..Len(systemPrompt) :
    systemPrompt[i] = "## Project Instructions (CLAUDE.md)"

\* C15: when a completion request is out, a run started without CLAUDE.md
\* carries system instructions with no project-conventions section and no
\* error text, and has recorded the absence as a system entry and logged no
\* error-kind entry at startup; a run started with CLAUDE.md carries its
\* content in the section.
ConventionsOptional ==
  pc = "request" =>
    IF claudeMdFile = NoFile
    THEN /\ ~HasConventionsSection
         /\ \A i \in 1..Len(systemPrompt) :
              systemPrompt[i] # "Error: Failed to read CLAUDE.md"
         /\ \A i \in StartupEntries : logs[i].type # "error"
         /\ \E i \in StartupEntries :
              logs[i] = LogEntry("system", "No CLAUDE.md found", "")
    ELSE \E i \in 1..(Len(systemPrompt) - 1) :
           /\ systemPrompt[i] = "## Project Instructions (CLAUDE.md)"
           /\ systemPrompt[i + 1] = claudeMdFile[1]

\* C16: a run that has left the loop has logged 'Reached maximum
\* iterations' exactly when the ceiling stopped a loop whose last response
\* still asked to continue; a run whose last response ended the
\* conversation has not logged it, at the 20th iteration either.
CeilingReportedIffCeilingStopped ==
  pc \in {"returned", "exited"} /\ returnCode = 0 =>
    (Logged("Reached maximum iterations")
       <=> (iterationCount >= MAX_ITERATIONS
            /\ ~EndsConversation(response, hasToolUse)))

\* C20: every snapshot a run has written carries the iteration count, and
\* carries the error message exactly when the run failed.
SnapshotCarriesMetadata ==
  snapshot # NoFile =>
    /\ "totalIterations" \in DOMAIN snapshot[1]
    /\ snapshot[1].totalIterations = iterationCount
    /\ ("error" \in DOMAIN snapshot[1]) <=> (returnCode = 1)

\* A response has been processed and the loop is back at its condition.
Processed == pc = "loop" /\ response # NoResponse
\* The response asks to stop: no tool_use block, or stop_reason end_turn.
AsksToStop ==
  ToolUseCount(response.content) = 0 \/ response.stop_reason = "end_turn"
\* The two turns a continuing response appends.
TwoTurns ==
  <<[role |-> "assistant", content |-> response.content],
    [role |-> "user", content |-> toolResults]>>

\* C17: once a response is processed, either it asks to stop, and then
\* nothing was appended to the transcript and no request follows, or it does
\* not, and then exactly the assistant turn and the tool-results turn were
\* appended and a further completion request follows.
ResponseEndsOrContinues ==
  Processed =>
    IF AsksToStop
    THEN messages = sent /\ ~ENABLED IssueRequest
    ELSE messages = sent \o TwoTurns /\ ENABLED IssueRequest

\* C17 amended: as above, except that after a continuing response the
\* further request follows unless iterationCount has reached
\* MAX_ITERATIONS; at the ceiling the two turns are appended and no request
\* follows.
ResponseEndsOrContinuesBelowCeiling ==
  Processed =>
    IF AsksToStop
    THEN messages = sent /\ ~ENABLED IssueRequest
    ELSE /\ messages = sent \o TwoTurns
         /\ IsResultTurn(messages[Len(messages)])
         /\ ENABLED IssueRequest <=> iterationCount < MAX_ITERATIONS

\* A response of a text and a call was processed below the ceiling.
ResponseEndsOrContinuesBelowCeilingWitness ==
  /\ Processed
  /\ Len(response.content) = 2
  /\ ToolUseCount(response.content) = 1
  /\ response.stop_reason = "tool_use"
  /\ Len(messages) = Len(sent) + 2
  /\ iterationCount < MAX_ITERATIONS

\* C18: no step changes, removes or reorders a turn of the transcript; the
\* first request carries the single initial user turn; each later request
\* carries the transcript of the request before it followed by one
\* assistant turn and one tool-results turn; every request ends with a
\* user turn, and request n carries 2n - 1 turns.
TranscriptAppendOnly ==
  [][/\ Len(messages') >= Len(messages)
     /\ SubSeq(messages', 1, Len(messages)) = messages
     /\ requests' # requests =>
          /\ Len(sent') = 2 * requests' - 1
          /\ sent'[Len(sent')].role = "user"
          /\ IF requests = 0
             THEN sent' = <<[role |-> "user", content |-> UserPrompt]>>
             ELSE /\ Len(sent') = Len(sent) + 2
                  /\ SubSeq(sent', 1, Len(sent)) = sent
                  /\ IsAssistant(sent'[Len(sent) + 1])
                  /\ IsResultTurn(sent'[Len(sent) + 2])]_vars

\* The third request is out, with five turns.
TranscriptAppendOnlyWitness ==
  pc = "request" /\ requests = 3 /\ Len(sent) = 5

\* The tools named by the 'Tool call' entries logged since the last
\* response came in, in order.
ToolCallsLogged ==
  LET last == CHOOSE i \in 1..Len(logs) :
                /\ logs[i].content[1] = "Claude response"
                /\ \A j \in (i + 1)..Len(logs) :
                     logs[j].content[1] # "Claude response"
      calls == SelectSeq(SubSeq(logs, last + 1, Len(logs)),
                         LAMBDA e : e.content[1] = "Tool call")
  IN  [i \in 1..Len(calls) |-> calls[i].content[2]]

\* What holds of the dispatch of the response in hand: while the tool of
\* block blockIdx executes, the calls dispatched so far are those of the
\* blocks up to blockIdx, once each and in order, and the batch holds the
\* results of all of them but the one executing, in the order of the calls;
\* once the response is processed, both cover all its calls.
DispatchedInOrder ==
  /\ pc = "tool" =>
       /\ ToolCallsLogged = CallNames(SubSeq(response.content, 1, blockIdx))
       /\ ResultIds(toolResults)
            = CallIds(SubSeq(response.content, 1, blockIdx - 1))
  /\ Processed =>
       /\ ToolCallsLogged = CallNames(response.content)
       /\ ResultIds(toolResults) = CallIds(response.content)

\* C19: the tool_use blocks of a response are dispatched once each, one at
\* a time and in their order, with the batch in the order of the calls; a
\* completion request is issued only from the loop's condition, never
\* while a tool executes or a request is out, and a response comes in only
\* for the one request that is out.
SequentialDispatch ==
  [][/\ DispatchedInOrder'
     /\ requests' # requests =>
          /\ pc = "loop" /\ pc' = "request"
          /\ requests' = requests + 1
     /\ pc = "tool" =>
          /\ pc' \in {"tool", "loop"}
          /\ response' = response
          /\ pc' = "tool" => blockIdx' > blockIdx
          /\ Len(toolResults') > Len(toolResults)
     /\ pc = "request" => pc' \in {"tool", "loop", "returned"}]_vars

\* The second of two calls of a response executes, the first one answered.
SequentialDispatchWitness ==
  /\ pc = "tool"
  /\ blockIdx = 2
  /\ ToolUseCount(response.content) = 2
  /\ Len(toolResults) = 1

====
